---- MODULE Spec2Model ----
(***************************************************************************)
(* Run-time behaviour of the code generated by the probers macros: the     *)
(* three nested once-cells that hold a provider (generate_impl_mod), the   *)
(* accessors get / get_init_error / __try_init_provider, and the probe!    *)
(* expansion that checks enablement before evaluating its arguments, and   *)
(* the wrapper of a deferred (closure) probe argument. The last part is    *)
(* the compile-time side: the validation of provider traits by find_probes, *)
(* get_probes, prober_impl and find_providers.                             *)
(***************************************************************************)
EXTENDS Integers, Sequences, FiniteSets, TLC

\* ---- bounds of the model ------------------------------------------------
NumThreads == 2
NumArgs == 2
\* most invocations of the counting closure before a program stops firing with it
MaxFires == 2
\* most invocations of the closure through one wrapper that is used directly
MaxWrapperCalls == 4
\* most items in the body of a provider trait handed to the macros
MaxItems == 3
\* most trait declarations in a source file scanned by find_providers
MaxTraits == 2

Threads == 1..NumThreads
\* the provider traits a program can declare; each gets its own generated module
Providers == {"A", "B"}
\* the probe methods of a provider trait, in declaration order
DeclaredProbes == <<"probe0", "probe1">>
NumProbes == Len(DeclaredProbes)
ProbeIdx == 1..NumProbes

\* messages of the errors the backend can report
BackendErrors == {"no_memory", "name_in_use"}
AddProbeError == "add_probe_failed"
GetProbeError == "get_probe_failed"

\* the closures a program passes as deferred probe arguments
Thunks == {"f", "g"}

VARIABLES
    declared,     \* the provider traits this program declares
    instCell,     \* #instance_var_name : OnceCell<Fallible<SystemProvider>>
    structCell,   \* #struct_var_name   : OnceCell<Fallible<ProviderImpl>>
    implOpt,      \* IMPL_OPT           : OnceCell<Option<&'static ProviderImpl>>
    enabled,      \* live enablement flag of each probe, owned by the tracing tool
    pc,           \* position of each thread
    op,           \* the public operation each thread is executing
    prov,         \* the provider that operation is about
    probe,        \* the probe a probe! attempt is about
    loc,          \* thread-local list under construction (builder / struct members)
    imp,          \* value get() returned to the thread in its current operation
    ret,          \* value returned by the thread's last completed operation
    evals,        \* argument expressions evaluated in the thread's current attempt, in order
    sawEnabled,   \* is_enabled() returned true in the thread's current attempt
    defineCalls,  \* invocations of SystemTracer::define_provider per provider
    structsBuilt, \* provider structs assembled per provider
    getResults,   \* every value a completed get() has returned, per provider
    events,       \* events submitted to the backend by the last fire of each thread
    role,         \* how the thread's current call of get() met the first resolution:
                  \* "builder" ran the closures, "waiter" was blocked until they ended
    thunkLog,     \* one entry per invocation of the closure: the wrapper method that made it
    wrapper,      \* the FuncProbeArgTypeWrapper a program uses directly
    lastOp,       \* the last method called on, or for, that wrapper
    wire,         \* what that method returned or wrote
    inner,        \* the wrapper of the closure's result that to_c_type builds
    startFlag,    \* the value the probe's flag had when the thread's attempt began
    lastInitError, \* what the thread's latest read in get_init_error() returned
    trait,        \* the syn::ItemTrait handed to the macro code
    file,         \* the syn::File handed to find_providers: its trait declarations
    expr,         \* the syn::Expr handed to probe_impl
    call,         \* the function of the macro code that was applied last
    found         \* what that function returned

vars == <<declared, instCell, structCell, implOpt, enabled, pc, op, prov, probe, loc,
          imp, ret, evals, sawEnabled, defineCalls, structsBuilt, getResults, events,
          role, thunkLog, wrapper, lastOp, wire, inner, startFlag, lastInitError, trait, file, expr,
          call, found>>

\* the state of the providers and of the threads at run time
progVarsRun == <<declared, instCell, structCell, implOpt, enabled, pc, op, prov, probe,
                 loc, imp, ret, evals, sawEnabled, defineCalls, structsBuilt, getResults,
                 events, role, startFlag, lastInitError>>

\* the input and the result of the compile-time code
astVars == <<trait, file, expr, call, found>>

\* the state of the deferred-argument wrapper and of the closure's counter
wrapVars == <<thunkLog, wrapper, lastOp, wire, inner>>
\* the state of the providers and of the threads that use them
progVars == <<declared, instCell, structCell, implOpt, enabled, pc, op, prov, probe, loc,
              imp, ret, evals, sawEnabled, defineCalls, structsBuilt, getResults, events,
              role, startFlag, lastInitError, astVars>>

\* ---- values -------------------------------------------------------------
Nil == [tag |-> "Nil", id |-> 0, err |-> <<>>, probes |-> <<>>]
Ok(i, ps) == [tag |-> "Ok", id |-> i, err |-> <<>>, probes |-> ps]
Err(msg) == [tag |-> "Err", id |-> 0, err |-> msg, probes |-> <<>>]
Some(i, ps) == [tag |-> "Some", id |-> i, err |-> <<>>, probes |-> ps]
SomeErr(msg) == [tag |-> "Some", id |-> 0, err |-> msg, probes |-> <<>>]
None == [tag |-> "None", id |-> 0, err |-> <<>>, probes |-> <<>>]

\* no wrapper has been constructed yet
NoWrapper == [thunk |-> "none"]
\* FuncProbeArgTypeWrapper(arg): the wrapper's only field is the reference to the closure
WrapperOf(f) == [thunk |-> f]
\* nothing has been returned yet
NoWire == <<>>
\* what a read through a dangling wire value can find
Dangling == <<"ctype", "freed">>
\* the value of type T the closure f produces when invoked
ThunkValue(f) == <<"value", f>>
\* super::wrap(arg).to_c_type() for a value of the closure's result type T
ToCTypeOfT(v) == <<"ctype">> \o v
\* <T as ProbeArgType<T>>::WrapperType::default_c_value()
DefaultCValueOfT == <<"ctype", "default">>
\* arg.fmt(f): the Debug text of a value of type T
DebugOfT(v) == <<"debug">> \o v

EmptyCell == [st |-> "empty", v |-> Nil]
RunningCell == [st |-> "running", v |-> Nil]
FullCell(x) == [st |-> "full", v |-> x]

\* OnceCell::get: the stored value, Nil standing for the None of an unfilled cell
OnceGet(c) == IF c.st = "full" THEN c.v ELSE Nil

\* a bail! whose message leaves out the cause
BailMessageDropsCause(e) == <<"Provider initialization failed">>

\* bail!("Provider initialization failed: {}", e)
BailMessage(e) == <<"Provider initialization failed: ">> \o e

\* a conversion that loses the struct reference
AsRefOkDropsValue(r) == None

\* imp.as_ref().ok()
AsRefOk(r) == IF r.tag = "Ok" THEN Some(r.id, r.probes) ELSE None

\* .ok() written where .err() was meant
AsRefErrTakesOk(r) == IF r.tag = "Ok" THEN SomeErr(<<>>) ELSE None

\* fallible.as_ref().err()
AsRefErr(r) == IF r.tag = "Err" THEN SomeErr(r.err) ELSE None

\* reports the stored result whether or not it is an error
GetInitErrorValueAnyResult(c) == IF c.st = "full" THEN SomeErr(c.v.err) ELSE None

\* #struct_var_name.get().and_then(|fallible| fallible.as_ref().err())
GetInitErrorValue(c) == IF OnceGet(c) = Nil THEN None ELSE AsRefErr(OnceGet(c))

\* a cell that keeps its callers waiting after the value was stored
OnceBlocksWhenFull(c) == c.st # "empty"

\* a cell that lets every caller run the closure at once
OnceNeverBlocks(c) == FALSE

\* OnceCell::get_or_init: a caller waits while another thread runs the closure
OnceBlocked(c) == c.st = "running"

\* a cell that forgets it was filled
OnceNeverFull(c) == FALSE

\* OnceCell::get_or_init: the closure is skipped when the cell already holds a value
OnceFull(c) == c.st = "full"

\* a constructor that evaluates the closure as soon as it is wrapped
ThunkInvocationsEager(m) == IF m \in {"new", "to_c_type", "fmt"} THEN <<m>> ELSE <<>>

\* a placeholder that is computed by evaluating the closure
ThunkInvocationsInDefault(m) ==
    IF m \in {"to_c_type", "fmt", "default_c_value"} THEN <<m>> ELSE <<>>

\* a conversion that evaluates the closure twice
ThunkInvocationsTwice(m) ==
    IF m = "to_c_type" THEN <<m, m>> ELSE IF m = "fmt" THEN <<m>> ELSE <<>>

\* the invocations of the closure made by one call of method m of
\* FuncProbeArgTypeWrapper: to_c_type and fmt call self.0() once, new and
\* default_c_value do not call it
ThunkInvocations(m) == IF m \in {"to_c_type", "fmt"} THEN <<m>> ELSE <<>>

\* the log of the closure's invocations after method m has run
LogAfter(log, m) == log \o ThunkInvocations(m)

\* the argument tuple of the call, evaluated left to right
AllArgs == [i \in 1..NumArgs |-> i]

\* an expansion that uses the handle without looking at the accessor's result
SomeBranchAlways(v) == TRUE

\* `if let Some(__probers_probe) = #get_probe_call`
SomeBranch(v) == v.tag = "Some"

\* a fire that does not depend on the enablement check
EnabledBranchAlways(flag) == TRUE

\* `if __probers_probe.is_enabled()`
EnabledBranch(flag) == flag

\* __try_init_provider written without its call of get()
CallsGetSkippedByTryInit(o) == o \notin {"get_init_error", "try_init"}

\* get_init_error written as a call of get() followed by the read
CallsGetAlways(o) == TRUE

\* the public operations whose first statement is a call of get(): all of them
\* except get_init_error, which only reads the struct cell
CallsGetFirst(o) == o # "get_init_error"

\* where an operation continues once its call of get() has returned v
PcAfterGet(o, v) ==
    CASE o = "get" -> "done"
      [] o \in {"probe", "probe_impl"} -> IF SomeBranch(v) THEN "is_enabled" ELSE "done"
      [] OTHER -> "init_error"

\* a struct published one member short
MembersCompleteEarly(l) == Len(l) >= NumProbes - 1

\* the struct literal is complete when every declared probe has its member
MembersComplete(l) == Len(l) = NumProbes

\* ---- provider traits as the macro code sees them ---------------------------
\* the identifiers of the provider traits, written as their CamelCase words
TraitNames == {<<"My", "Probes">>, <<"Tracer">>}

\* a method declaration that ProbeSpecification::from_method accepts
Method(n) == [kind |-> "method", name |-> n, suitable |-> TRUE]
\* a method declaration it rejects (it returns a value, takes self, is generic, ...)
UnsuitableMethod(n) == [kind |-> "method", name |-> n, suitable |-> FALSE]
\* a trait item that is not a method: TraitItem::Const, ::Type, ::Macro
OtherItem(k) == [kind |-> k, name |-> k, suitable |-> FALSE]

\* the items a trait body is made of
Items ==
    {Method("probe0"), Method("probe1"), UnsuitableMethod("probe2"),
     OtherItem("const"), OtherItem("type"), OtherItem("macro")}

\* the sequences over S of length at most n
SeqsUpTo(S, n) == UNION {[1..k -> S] : k \in 0..n}

\* syn::ItemTrait: the identifier, the generics and the items of a trait declaration
Traits ==
    [ident : TraitNames, typeParams : BOOLEAN, lifetimes : BOOLEAN,
     items : SeqsUpTo(Items, MaxItems)]

\* no trait has been handed to the macro code yet
NoTrait == [ident |-> <<>>, typeParams |-> FALSE, lifetimes |-> FALSE, items |-> <<>>]

\* the results of the macro code: ProberResult<Vec<ProbeSpecification>>,
\* ProberResult<TokenStream> and Vec<ProviderSpecification>
NoResult ==
    [tag |-> "none", probes |-> <<>>, msg |-> "", code |-> <<>>, providers |-> <<>>,
     evaluated |-> <<>>]
OkProbes(ps) == [NoResult EXCEPT !.tag = "Ok", !.probes = ps]
OkTokens(c) == [NoResult EXCEPT !.tag = "Ok", !.code = c]
OkProviders(l) == [NoResult EXCEPT !.tag = "Ok", !.providers = l]
ProberError(m) == [NoResult EXCEPT !.tag = "Err", !.msg = m]
\* the generated code c was run along path m and evaluated the expressions es
Ran(c, m, es) == [NoResult EXCEPT !.tag = "Ran", !.code = c, !.msg = m, !.evaluated = es]

GenericsMessage == "Probe traits must not take any lifetime or type parameters"
NonMethodMessage == "Probe traits must consist entirely of methods, no other contents"
UnsuitableMessage == "the method is not suitable as a probe"
GenerateMessage == "the probe's methods could not be generated"

\* ProbeSpecification::from_method(item, m): the probe's specification, or an error
FromMethod(m) ==
    IF m.suitable THEN OkProbes(<<m.name>>) ELSE ProberError(UnsuitableMessage)

\* a parameter test that looks at the type parameters only
HasGenericsTypeOnly(tr) == tr.typeParams

\* item.generics.type_params().next() != None || item.generics.lifetimes().next() != None
HasGenerics(tr) == tr.typeParams \/ tr.lifetimes

\* a loop that stops at the first item that is not a method and keeps what it has
OnNonMethodStop(specs) == OkProbes(specs)

\* `_ => return Err(ProberError::new("Probe traits must consist entirely ..."))`
OnNonMethod(specs) == ProberError(NonMethodMessage)

\* a list that grows at its front
PushFront(specs, spec) == <<spec>> \o specs

\* specs.push(..)
Push(specs, spec) == Append(specs, spec)

\* the loop `for f in item.items.iter()` of find_probes and of get_probes, from the
\* items still to visit and the specifications collected so far
RECURSIVE ScanItems(_, _)
ScanItems(items, specs) ==
    IF items = <<>>
      THEN OkProbes(specs)
      ELSE IF Head(items).kind = "method"
             THEN IF FromMethod(Head(items)).tag = "Err"
                    THEN FromMethod(Head(items))
                    ELSE ScanItems(Tail(items),
                                   Push(specs, FromMethod(Head(items)).probes[1]))
             ELSE OnNonMethod(specs)

\* find_probes(item) of probers-codegen
FindProbes(tr) ==
    IF HasGenerics(tr) THEN ProberError(GenericsMessage) ELSE ScanItems(tr.items, <<>>)

\* get_probes(item) of probers-macros
GetProbes(tr) == ScanItems(tr.items, <<>>)

\* the token stream prober_impl emits: the struct and the implementation module
GeneratedCode(tr, ps) == <<"struct", tr.ident, "impl", ps>>

\* generate_prober_struct(..)? and generate_impl_mod(..), where g tells whether
\* every probe.generate_trait_methods(..) succeeds
Generate(tr, ps, g) ==
    IF ps # <<>> /\ ~g THEN ProberError(GenerateMessage) ELSE OkTokens(GeneratedCode(tr, ps))

\* prober_impl(item) of probers-codegen
ProberImpl(tr, g) ==
    IF FindProbes(tr).tag = "Err" THEN FindProbes(tr)
    ELSE Generate(tr, FindProbes(tr).probes, g)

\* prober_impl(item) of probers-macros
ProberImplMacros(tr, g) ==
    IF HasGenerics(tr) THEN ProberError(GenericsMessage)
    ELSE IF GetProbes(tr).tag = "Err" THEN GetProbes(tr)
    ELSE Generate(tr, GetProbes(tr).probes, g)

\* ---- the probe! macro's input and expansion ----------------------------------
\* the paths a call can name: a bare probe, Provider::probe, module::Provider::probe
CalleePaths ==
    {<<"probe0">>, <<"P", "probe0">>, <<"P", "probe1">>, <<"m", "P", "probe0">>}

\* the callee of a call expression: a path, or some other expression (a closure, a
\* parenthesized expression)
Callees ==
    [kind : {"path"}, segments : CalleePaths]
        \cup [kind : {"closure", "paren"}, segments : {<<>>}]

\* the argument expressions of the call
ArgExprs == {"x", "y()"}

\* syn::Expr: a call, or another kind of expression (a literal, a method call)
Exprs ==
    [kind : {"call"}, func : Callees, args : SeqsUpTo(ArgExprs, NumArgs)]
        \cup [kind : {"lit", "method_call"},
              func : {[kind |-> "none", segments |-> <<>>]}, args : {<<>>}]

\* no expression has been handed to the macro code yet
NoExpr == [kind |-> "none", func |-> [kind |-> "none", segments |-> <<>>], args |-> <<>>]

NotACallMessage == "The probe! macro requires the name of a provider trait and its probe method, e.g. MyProvider::myprobe(...)"
UnexpectedCalleeMessage == "Unexpected expression for function call"

\* format!("get_{}_probe", probe_segment.ident)
GetProbeIdent(n) == "get_" \o n \o "_probe"

\* syn_helpers::add_suffix_to_ident(&probe_segment.ident, "_impl")
ImplIdent(n) == n \o "_impl"

\* `if let Some(ref mut pair) = func.path.segments.last_mut()`: the path with its
\* last segment renamed to the accessor's identifier
GetProbePath(segs) ==
    IF segs = <<>> THEN segs ELSE [segs EXCEPT ![Len(segs)] = GetProbeIdent(@)]

\* the path with "_impl" appended to its last segment
ImplPath(segs) ==
    IF segs = <<>> THEN segs ELSE [segs EXCEPT ![Len(segs)] = ImplIdent(@)]

\* a tuple that lists the arguments from the last to the first
FireTupleReversed(args) == [i \in 1..Len(args) |-> args[Len(args) + 1 - i]]

\* syn::Expr::Tuple(ExprTuple { elems: get_probe_call.args, .. })
FireTuple(args) == args

\* a callee test that lets every call through
IsPathAny(f) == TRUE

\* `if let syn::Expr::Path(ref mut func) = ...`
IsPath(f) == f.kind = "path"

\* probe_impl(call) of probers-codegen: the block
\* { if let Some(p) = <accessor>() { if p.is_enabled() { p.fire(<tuple>); } } }
ProbeImpl(e) ==
    IF e.kind # "call" THEN ProberError(NotACallMessage)
    ELSE IF ~IsPath(e.func) THEN ProberError(UnexpectedCalleeMessage)
    ELSE OkTokens(<<[form |-> "block",
                     func |-> GetProbePath(e.func.segments),
                     args |-> <<>>,
                     fire |-> FireTuple(e.args)]>>)

\* probe_impl(call) of probers-macros: the call itself, of <name>_impl
ProbeImplMacros(e) ==
    IF e.kind # "call" THEN ProberError(NotACallMessage)
    ELSE IF ~IsPath(e.func) THEN ProberError(UnexpectedCalleeMessage)
    ELSE OkTokens(<<[form |-> "call",
                     func |-> ImplPath(e.func.segments),
                     args |-> e.args,
                     fire |-> <<>>]>>)

\* the path the generated code takes when the accessor returns v and the flag is
\* flag
PathTaken(block, v, flag) ==
    IF block.form = "call" THEN "called"
    ELSE IF ~SomeBranch(v) THEN "no provider"
    ELSE IF ~EnabledBranch(flag) THEN "disabled"
    ELSE "fired"

\* the argument expressions the generated code evaluates, in the order of their
\* evaluation: a tuple expression and a call evaluate their operands left to right
Evaluated(block, v, flag) ==
    IF block.form = "call" THEN block.args
    ELSE IF SomeBranch(v) /\ EnabledBranch(flag) THEN block.fire
    ELSE <<>>

\* ---- source files as find_providers sees them --------------------------------
\* str::to_lowercase on the words of the identifiers
Lower(w) ==
    CASE w = "My" -> "my"
      [] w = "Probes" -> "probes"
      [] w = "Tracer" -> "tracer"
      [] OTHER -> w

\* the words of an identifier joined by sep
RECURSIVE Join(_, _)
Join(words, sep) ==
    IF words = <<>> THEN ""
    ELSE IF Len(words) = 1 THEN Head(words)
    ELSE Head(words) \o sep \o Join(Tail(words), sep)

\* heck's to_snake_case: the words of the identifier, in lower case, joined by "_"
SnakeCase(words) == Join([i \in 1..Len(words) |-> Lower(words[i])], "_")

\* the attribute lists of the traits: none, #[prober], #[probers::prober], a path
\* that merely starts with `prober`, and #[prober] after another attribute
AttrLists ==
    {<<>>, << <<"prober">> >>, << <<"probers", "prober">> >>,
     << <<"prober", "other">> >>, << <<"derive">>, <<"prober">> >>}

\* the trait declarations of the files
FileTraits ==
    [ident : TraitNames, typeParams : BOOLEAN, lifetimes : {FALSE},
     items : {<<>>, <<Method("probe0"), Method("probe1")>>,
              <<Method("probe0"), OtherItem("const")>>, <<UnsuitableMethod("probe2")>>}]

\* the trait declarations of a file, in the order the visitor reaches their end
Files == SeqsUpTo([attrs : AttrLists, decl : FileTraits], MaxTraits)

\* attr.path.segments.iter().last() is Some segment whose ident is "prober"
ProberPath(path) == path # <<>> /\ path[Len(path)] = "prober"

\* i.attrs.iter().any(..)
Attributed(attrs) == \E i \in 1..Len(attrs) : ProberPath(attrs[i])

\* ProviderSpecification::from_trait(item_trait)
FromTrait(tr) ==
    IF FindProbes(tr).tag = "Err" THEN FindProbes(tr)
    ELSE OkProviders(<<[name |-> SnakeCase(tr.ident), probes |-> FindProbes(tr).probes]>>)

\* a visitor that keeps an attributed trait that is not valid, without probes
VisitItemTraitAny(e, providers) ==
    IF Attributed(e.attrs)
      THEN IF FromTrait(e.decl).tag = "Ok"
             THEN providers \o FromTrait(e.decl).providers
             ELSE providers \o <<[name |-> SnakeCase(e.decl.ident), probes |-> <<>>]>>
      ELSE providers

\* Visitor::visit_item_trait: the providers after trait e was visited
VisitItemTrait(e, providers) ==
    IF Attributed(e.attrs) /\ FromTrait(e.decl).tag = "Ok"
      THEN providers \o FromTrait(e.decl).providers
      ELSE providers

\* visitor.visit_file(ast)
RECURSIVE VisitFile(_, _)
VisitFile(entries, providers) ==
    IF entries = <<>> THEN providers
    ELSE VisitFile(Tail(entries), VisitItemTrait(Head(entries), providers))

\* find_providers(ast)
FindProviders(f) == OkProviders(VisitFile(f, <<>>))

\* the initialization result of provider p, as held by the struct cell
Ready(p) == structCell[p].st = "full" /\ structCell[p].v.tag = "Ok"
Failed(p) == structCell[p].st = "full" /\ structCell[p].v.tag = "Err"
Untouched(p) ==
    /\ instCell[p].st = "empty"
    /\ structCell[p].st = "empty"
    /\ implOpt[p].st = "empty"
ProviderState(p) ==
    IF Ready(p) THEN "Ready"
    ELSE IF Failed(p) THEN "Failed"
    ELSE IF Untouched(p) THEN "Uninitialized"
    ELSE "Initializing"

TypeOK ==
    /\ declared \subseteq Providers
    /\ \A p \in Providers :
          /\ instCell[p].st \in {"empty", "running", "full"}
          /\ structCell[p].st \in {"empty", "running", "full"}
          /\ implOpt[p].st \in {"empty", "running", "full"}
    /\ \A t \in Threads :
          /\ pc[t] \in {"idle", "implopt", "struct", "instance", "define", "match",
                        "members", "convert", "init_error", "is_enabled", "fire", "done"}
          /\ op[t] \in {"none", "get", "get_init_error", "try_init", "probe", "probe_impl"}
          /\ prov[t] \in Providers
          /\ probe[t] \in ProbeIdx
          /\ role[t] \in {"none", "builder", "waiter"}
    /\ thunkLog \in Seq({"new", "to_c_type", "default_c_value", "fmt"})
    /\ wrapper.thunk \in Thunks \cup {"none"}
    /\ lastOp \in {"none", "new", "to_c_type", "default_c_value", "fmt", "fire"}
    /\ inner \in {"none", "alive", "dropped"}
    /\ startFlag \in [Threads -> BOOLEAN]
    /\ \A t \in Threads : lastInitError[t].tag \in {"Nil", "None", "Some"}
    /\ call \in {"none", "find_probes", "get_probes", "prober_impl",
                  "prober_impl (probers-macros)", "find_providers", "probe_impl",
                  "probe_impl (probers-macros)", "run"}
    /\ found.tag \in {"none", "Ok", "Err", "Ran"}
    /\ Len(file) <= MaxTraits

InitCommon ==
    /\ instCell = [p \in Providers |-> EmptyCell]
    /\ structCell = [p \in Providers |-> EmptyCell]
    /\ implOpt = [p \in Providers |-> EmptyCell]
    /\ enabled = [p \in Providers |-> [i \in ProbeIdx |-> FALSE]]
    /\ pc = [t \in Threads |-> "idle"]
    /\ op = [t \in Threads |-> "none"]
    /\ prov = [t \in Threads |-> "A"]
    /\ probe = [t \in Threads |-> 1]
    /\ loc = [t \in Threads |-> <<>>]
    /\ imp = [t \in Threads |-> Nil]
    /\ ret = [t \in Threads |-> Nil]
    /\ evals = [t \in Threads |-> <<>>]
    /\ sawEnabled = [t \in Threads |-> FALSE]
    /\ defineCalls = [p \in Providers |-> 0]
    /\ structsBuilt = [p \in Providers |-> 0]
    /\ getResults = [p \in Providers |-> {}]
    /\ events = [t \in Threads |-> 0]
    /\ role = [t \in Threads |-> "none"]
    /\ thunkLog = <<>>
    /\ wrapper = NoWrapper
    /\ lastOp = "none"
    /\ wire = NoWire
    /\ inner = "none"
    /\ startFlag = [t \in Threads |-> FALSE]
    /\ lastInitError = [t \in Threads |-> Nil]
    /\ call = "none"
    /\ found = NoResult

\* the running program holds no source text
NoSource ==
    /\ trait = NoTrait
    /\ file = <<>>
    /\ expr = NoExpr

Init ==
    /\ declared = {"A"}
    /\ InitCommon
    /\ NoSource

\* one module name, and so one set of statics, used for every provider trait
StaticsShared(p) == "A"

\* the generated module that holds the three statics of provider trait p: its name
\* is derived from the trait's name, so each trait has a module of its own
StaticsOf(p) == p

\* a handle that keeps the value the flag had when the probe was registered
IsEnabledCached(p, i) == FALSE

\* is_enabled(): the live value of the probe's flag, read anew by every call
IsEnabledValue(p, i) == enabled[p][i]

\* a program that declares two provider traits
InitTwo ==
    /\ declared = {"A", "B"}
    /\ InitCommon
    /\ NoSource

\* ---- the public operations start ----------------------------------------
Idle(t) == pc[t] \in {"idle", "done"}

StartCall(t, p, o) ==
    /\ Idle(t)
    /\ p \in declared
    /\ op' = [op EXCEPT ![t] = o]
    /\ prov' = [prov EXCEPT ![t] = StaticsOf(p)]
    /\ pc' = [pc EXCEPT ![t] = IF CallsGetFirst(o) THEN "implopt" ELSE "init_error"]
    /\ role' = [role EXCEPT ![t] = "none"]
    /\ UNCHANGED <<astVars, wrapVars, lastInitError, declared, instCell, structCell, implOpt, enabled,
                   defineCalls, structsBuilt, getResults>>
    /\ loc' = [loc EXCEPT ![t] = <<>>]
    /\ imp' = [imp EXCEPT ![t] = Nil]
    /\ ret' = [ret EXCEPT ![t] = Nil]
    /\ sawEnabled' = [sawEnabled EXCEPT ![t] = FALSE]
    /\ events' = [events EXCEPT ![t] = 0]

StartOp(t, p, o) ==
    /\ StartCall(t, p, o)
    /\ UNCHANGED startFlag

\* a thread calls ProviderImpl::get()
CallGet(t, p) ==
    /\ StartOp(t, p, "get")
    /\ evals' = [evals EXCEPT ![t] = <<>>]
    /\ probe' = [probe EXCEPT ![t] = 1]

\* a thread calls __try_init_provider(): get(), then get_init_error()
CallTryInit(t, p) ==
    /\ StartOp(t, p, "try_init")
    /\ evals' = [evals EXCEPT ![t] = <<>>]
    /\ probe' = [probe EXCEPT ![t] = 1]

\* a thread calls get_init_error() / __get_init_error()
CallGetInitError(t, p) ==
    /\ StartOp(t, p, "get_init_error")
    /\ evals' = [evals EXCEPT ![t] = <<>>]
    /\ probe' = [probe EXCEPT ![t] = 1]

\* probe!(P::name(args)) as expanded by probers-codegen: the accessor is called first
CallProbe(t, p, i) ==
    /\ StartOp(t, p, "probe")
    /\ probe' = [probe EXCEPT ![t] = i]
    /\ evals' = [evals EXCEPT ![t] = <<>>]

\* the same call in a program that also notes what the flag was when the attempt began
CallProbeNoting(t, p, i) ==
    /\ StartCall(t, p, "probe")
    /\ probe' = [probe EXCEPT ![t] = i]
    /\ evals' = [evals EXCEPT ![t] = <<>>]
    /\ startFlag' = [startFlag EXCEPT ![t] = enabled[p][i]]

\* probe!(P::name(args)) as expanded by probers-macros: the plain call P::name_impl(args),
\* whose arguments are evaluated before name_impl is entered
CallProbeImpl(t, p, i) ==
    /\ StartOp(t, p, "probe_impl")
    /\ probe' = [probe EXCEPT ![t] = i]
    /\ evals' = [evals EXCEPT ![t] = AllArgs]

\* ---- get(): the three nested get_or_init calls ---------------------------
\* get() returns v to thread t
ReturnFromGet(t, v) ==
    /\ pc' = [pc EXCEPT ![t] = PcAfterGet(op[t], v)]
    /\ imp' = [imp EXCEPT ![t] = v]
    /\ ret' = [ret EXCEPT ![t] = IF op[t] = "get" THEN v ELSE Nil]
    /\ getResults' = [getResults EXCEPT ![prov[t]] = @ \cup {v}]

\* IMPL_OPT.get_or_init(..): return the stored value, or start running the closure
GetImplOpt(t) ==
    /\ pc[t] = "implopt"
    /\ ~OnceBlocked(implOpt[prov[t]])
    /\ IF OnceFull(implOpt[prov[t]])
         THEN /\ ReturnFromGet(t, implOpt[prov[t]].v)
              /\ UNCHANGED <<implOpt, role>>
         ELSE /\ implOpt' = [implOpt EXCEPT ![prov[t]] = RunningCell]
              /\ pc' = [pc EXCEPT ![t] = "struct"]
              /\ role' = [role EXCEPT ![t] = "builder"]
              /\ UNCHANGED <<imp, ret, getResults>>
    /\ UNCHANGED <<astVars, wrapVars, startFlag, lastInitError, declared, instCell, structCell, enabled, op, prov, probe, loc,
                   evals, sawEnabled, defineCalls, structsBuilt, events>>

\* #struct_var_name.get_or_init(..)
GetStruct(t) ==
    /\ pc[t] = "struct"
    /\ ~OnceBlocked(structCell[prov[t]])
    /\ IF OnceFull(structCell[prov[t]])
         THEN /\ pc' = [pc EXCEPT ![t] = "convert"]
              /\ UNCHANGED structCell
         ELSE /\ structCell' = [structCell EXCEPT ![prov[t]] = RunningCell]
              /\ pc' = [pc EXCEPT ![t] = "instance"]
    /\ UNCHANGED <<astVars, wrapVars, startFlag, lastInitError, declared, instCell, implOpt, enabled, op, prov, probe, loc, imp, ret,
                   evals, sawEnabled, defineCalls, structsBuilt, getResults, events,
                   role>>

\* #instance_var_name.get_or_init(..): the closure invokes SystemTracer::define_provider
GetInstance(t) ==
    /\ pc[t] = "instance"
    /\ ~OnceBlocked(instCell[prov[t]])
    /\ IF OnceFull(instCell[prov[t]])
         THEN /\ pc' = [pc EXCEPT ![t] = "match"]
              /\ UNCHANGED <<instCell, defineCalls, loc>>
         ELSE /\ instCell' = [instCell EXCEPT ![prov[t]] = RunningCell]
              /\ defineCalls' = [defineCalls EXCEPT ![prov[t]] = @ + 1]
              /\ loc' = [loc EXCEPT ![t] = <<>>]
              /\ pc' = [pc EXCEPT ![t] = "define"]
    /\ UNCHANGED <<astVars, wrapVars, startFlag, lastInitError, declared, structCell, implOpt, enabled, op, prov, probe, imp, ret,
                   evals, sawEnabled, structsBuilt, getResults, events,
                   role>>

\* inside define_provider's closure: builder.add_probe for the next declared probe
AddProbe(t) ==
    /\ pc[t] = "define"
    /\ Len(loc[t]) < NumProbes
    /\ \/ /\ loc' = [loc EXCEPT ![t] = Append(@, DeclaredProbes[Len(@) + 1])]
          /\ UNCHANGED <<instCell, pc>>
       \/ /\ instCell' = [instCell EXCEPT ![prov[t]] = FullCell(Err(<<AddProbeError>>))]
          /\ pc' = [pc EXCEPT ![t] = "match"]
          /\ UNCHANGED loc
    /\ UNCHANGED <<astVars, wrapVars, startFlag, lastInitError, declared, structCell, implOpt, enabled, op, prov, probe, imp, ret,
                   evals, sawEnabled, defineCalls, structsBuilt, getResults, events,
                   role>>

\* the closure returned Ok(builder): define_provider builds the provider or fails
FinishDefine(t) ==
    /\ pc[t] = "define"
    /\ Len(loc[t]) = NumProbes
    /\ \/ instCell' = [instCell EXCEPT ![prov[t]] =
                          FullCell(Ok(defineCalls[prov[t]], loc[t]))]
       \/ \E e \in BackendErrors :
             instCell' = [instCell EXCEPT ![prov[t]] = FullCell(Err(<<e>>))]
    /\ pc' = [pc EXCEPT ![t] = "match"]
    /\ UNCHANGED <<astVars, wrapVars, startFlag, lastInitError, declared, structCell, implOpt, enabled, op, prov, probe, loc, imp, ret,
                   evals, sawEnabled, defineCalls, structsBuilt, getResults, events,
                   role>>

\* match p.as_ref() { Err(e) => bail!(..), Ok(p) => Ok(ProviderImpl{..}) }
MatchProvider(t) ==
    /\ pc[t] = "match"
    /\ IF instCell[prov[t]].v.tag = "Err"
         THEN /\ structCell' = [structCell EXCEPT ![prov[t]] =
                                   FullCell(Err(BailMessage(instCell[prov[t]].v.err)))]
              /\ pc' = [pc EXCEPT ![t] = "convert"]
              /\ UNCHANGED loc
         ELSE /\ loc' = [loc EXCEPT ![t] = <<>>]
              /\ pc' = [pc EXCEPT ![t] = "members"]
              /\ UNCHANGED structCell
    /\ UNCHANGED <<astVars, wrapVars, startFlag, lastInitError, declared, instCell, implOpt, enabled, op, prov, probe, imp, ret,
                   evals, sawEnabled, defineCalls, structsBuilt, getResults, events,
                   role>>

\* one struct member initializer: the probe's handle is looked up on the provider
InitMember(t) ==
    /\ pc[t] = "members"
    /\ ~MembersComplete(loc[t])
    /\ \/ /\ loc' = [loc EXCEPT ![t] = Append(@, DeclaredProbes[Len(@) + 1])]
          /\ UNCHANGED <<structCell, pc>>
       \/ /\ structCell' = [structCell EXCEPT ![prov[t]] = FullCell(Err(<<GetProbeError>>))]
          /\ pc' = [pc EXCEPT ![t] = "convert"]
          /\ UNCHANGED loc
    /\ UNCHANGED <<astVars, wrapVars, startFlag, lastInitError, declared, instCell, implOpt, enabled, op, prov, probe, imp, ret,
                   evals, sawEnabled, defineCalls, structsBuilt, getResults, events,
                   role>>

\* Ok(ProviderImpl{ members }) becomes the value of the struct cell
Assemble(t) ==
    /\ pc[t] = "members"
    /\ MembersComplete(loc[t])
    /\ structsBuilt' = [structsBuilt EXCEPT ![prov[t]] = @ + 1]
    /\ structCell' = [structCell EXCEPT ![prov[t]] =
                         FullCell(Ok(structsBuilt[prov[t]] + 1, loc[t]))]
    /\ pc' = [pc EXCEPT ![t] = "convert"]
    /\ UNCHANGED <<astVars, wrapVars, startFlag, lastInitError, declared, instCell, implOpt, enabled, op, prov, probe, loc, imp, ret,
                   evals, sawEnabled, defineCalls, getResults, events,
                   role>>

\* imp.as_ref().ok() becomes the value of IMPL_OPT, and get() returns *imp
Convert(t) ==
    /\ pc[t] = "convert"
    /\ implOpt' = [implOpt EXCEPT ![prov[t]] = FullCell(AsRefOk(structCell[prov[t]].v))]
    /\ ReturnFromGet(t, AsRefOk(structCell[prov[t]].v))
    /\ loc' = [loc EXCEPT ![t] = <<>>]
    /\ role' = [u \in Threads |->
                   IF u # t /\ pc[u] = "implopt" /\ prov[u] = prov[t]
                     THEN "waiter" ELSE role[u]]
    /\ UNCHANGED <<astVars, wrapVars, startFlag, lastInitError, declared, instCell, structCell, enabled, op, prov, probe,
                   evals, sawEnabled, defineCalls, structsBuilt, events>>

\* the body of get_init_error(), also the second statement of __try_init_provider:
\* one read of the struct cell
ReadInitError(t) ==
    /\ pc[t] = "init_error"
    /\ ret' = [ret EXCEPT ![t] = GetInitErrorValue(structCell[prov[t]])]
    /\ pc' = [pc EXCEPT ![t] = "done"]
    /\ UNCHANGED <<astVars, wrapVars, startFlag, declared, instCell, structCell, implOpt, enabled, op, prov, probe, loc,
                   imp, evals, sawEnabled, defineCalls, structsBuilt, getResults, events,
                   role>>

GetInitError(t) ==
    /\ ReadInitError(t)
    /\ UNCHANGED lastInitError

\* the same read, with its result noted as the thread's latest
GetInitErrorNoting(t) ==
    /\ ReadInitError(t)
    /\ lastInitError' = [lastInitError EXCEPT ![t] = ret'[t]]

\* ---- the probe! attempt ---------------------------------------------------
\* __probers_probe.is_enabled(): one read of the live flag
IsEnabled(t) ==
    /\ pc[t] = "is_enabled"
    /\ sawEnabled' = [sawEnabled EXCEPT ![t] = IsEnabledValue(prov[t], probe[t])]
    /\ pc' = [pc EXCEPT ![t] =
                 IF EnabledBranch(IsEnabledValue(prov[t], probe[t])) THEN "fire" ELSE "done"]
    /\ UNCHANGED <<astVars, wrapVars, startFlag, lastInitError, declared, instCell, structCell, implOpt, enabled, op, prov, probe, loc,
                   imp, ret, evals, defineCalls, structsBuilt, getResults, events,
                   role>>

\* __probers_probe.fire((args,)): the tuple is evaluated, then submitted
FireArgs(t) ==
    /\ pc[t] = "fire"
    /\ evals' = [evals EXCEPT ![t] = IF op[t] = "probe" THEN AllArgs ELSE @]
    /\ events' = [events EXCEPT ![t] = 1]
    /\ pc' = [pc EXCEPT ![t] = "done"]
    /\ UNCHANGED <<astVars, startFlag, lastInitError, declared, instCell, structCell, implOpt, enabled, op, prov,
                   probe, loc, imp, ret, sawEnabled, defineCalls, structsBuilt, getResults,
                   role>>

\* a fire whose arguments are plain values
Fire(t) ==
    /\ FireArgs(t)
    /\ UNCHANGED wrapVars

\* probe!(P::probe0(&f)) where f is a closure that counts its invocations
CallProbeThunk(t, p) ==
    /\ Len(thunkLog) < MaxFires
    /\ CallProbe(t, p, 1)

\* a fire whose argument is the reference to the closure: the argument is wrapped
\* (FuncProbeArgTypeWrapper::new) and the wrapper converted (to_c_type) before the
\* event is submitted
FireThunk(t) ==
    /\ FireArgs(t)
    /\ thunkLog' = LogAfter(LogAfter(thunkLog, "new"), "to_c_type")
    /\ UNCHANGED <<wrapper, lastOp, wire, inner>>

\* ---- a deferred-argument wrapper used directly -----------------------------
\* FuncProbeArgTypeWrapper::new(arg)
WrapperNew(f) ==
    /\ wrapper = NoWrapper
    /\ wrapper' = WrapperOf(f)
    /\ thunkLog' = LogAfter(thunkLog, "new")
    /\ lastOp' = "new"
    /\ wire' = NoWire
    /\ UNCHANGED <<inner, progVars>>

\* wrapper.to_c_type(): let arg = self.0(); let mut wrapped = wrap(arg);
\* wrapped.to_c_type(). The local `wrapped` goes out of scope when the function
\* returns, so the wrapper of the closure's result is dropped by then
ToCType ==
    /\ wrapper # NoWrapper
    /\ Len(thunkLog) < MaxWrapperCalls
    /\ thunkLog' = LogAfter(thunkLog, "to_c_type")
    /\ lastOp' = "to_c_type"
    /\ wire' = ToCTypeOfT(ThunkValue(wrapper.thunk))
    /\ inner' = "dropped"
    /\ UNCHANGED <<wrapper, progVars>>

\* FuncProbeArgTypeWrapper::default_c_value(): an associated function, no receiver
DefaultCValue ==
    /\ thunkLog' = LogAfter(thunkLog, "default_c_value")
    /\ lastOp' = "default_c_value"
    /\ wire' = DefaultCValueOfT
    /\ UNCHANGED <<wrapper, inner, progVars>>

\* <FuncProbeArgTypeWrapper as Debug>::fmt: let arg = self.0(); arg.fmt(f)
DebugFmt ==
    /\ wrapper # NoWrapper
    /\ Len(thunkLog) < MaxWrapperCalls
    /\ thunkLog' = LogAfter(thunkLog, "fmt")
    /\ lastOp' = "fmt"
    /\ wire' = DebugOfT(ThunkValue(wrapper.thunk))
    /\ UNCHANGED <<wrapper, inner, progVars>>

\* the wire value to_c_type returned is handed to the backend. What a wire value
\* refers to is owned by the wrapper that produced it: read after that wrapper was
\* dropped, it may still be there or may be anything
Submit ==
    /\ lastOp = "to_c_type"
    /\ lastOp' = "fire"
    /\ wire' \in (IF inner = "alive" THEN {wire} ELSE {wire, Dangling})
    /\ UNCHANGED <<thunkLog, wrapper, inner, progVars>>

\* ---- the macro code applied to one trait ------------------------------------
\* the result r of function f is returned
Returns(f, r) ==
    /\ call' = f
    /\ found' = r
    /\ UNCHANGED <<trait, file, expr, progVarsRun, wrapVars>>

\* find_probes(&item)
CallFindProbes == Returns("find_probes", FindProbes(trait))

\* get_probes(&item)
CallGetProbes == Returns("get_probes", GetProbes(trait))

\* prober_impl(item) as probers-codegen defines it
CallProberImpl(g) == Returns("prober_impl", ProberImpl(trait, g))

\* prober_impl(item) as probers-macros defines it
CallProberImplMacros(g) ==
    Returns("prober_impl (probers-macros)", ProberImplMacros(trait, g))

\* probe_impl(call) as probers-codegen defines it
ExpandProbe == Returns("probe_impl", ProbeImpl(expr))

\* probe_impl(call) as probers-macros defines it
ExpandProbeMacros == Returns("probe_impl (probers-macros)", ProbeImplMacros(expr))

\* the generated code runs, the accessor returning v and the flag being flag
RunExpansion(v, flag) ==
    /\ call \in {"probe_impl", "probe_impl (probers-macros)"}
    /\ found.tag = "Ok"
    /\ Returns("run", Ran(found.code, PathTaken(found.code[1], v, flag),
                          Evaluated(found.code[1], v, flag)))

\* find_providers(&file)
CallFindProviders == Returns("find_providers", FindProviders(file))

\* the tracing tool attaches to or detaches from a probe
Toggle(p, i) ==
    /\ p \in declared
    /\ enabled' = [enabled EXCEPT ![p][i] = ~@]
    /\ UNCHANGED <<astVars, wrapVars, startFlag, lastInitError, declared, instCell, structCell, implOpt, pc, op, prov, probe, loc,
                   imp, ret, evals, sawEnabled, defineCalls, structsBuilt, getResults,
                   events,
                   role>>

\* a program built with probers-codegen
Next ==
    \/ \E t \in Threads, p \in Providers : CallGet(t, p)
    \/ \E t \in Threads, p \in Providers : CallTryInit(t, p)
    \/ \E t \in Threads, p \in Providers : CallGetInitError(t, p)
    \/ \E t \in Threads, p \in Providers, i \in ProbeIdx : CallProbe(t, p, i)
    \/ \E t \in Threads : GetImplOpt(t)
    \/ \E t \in Threads : GetStruct(t)
    \/ \E t \in Threads : GetInstance(t)
    \/ \E t \in Threads : AddProbe(t)
    \/ \E t \in Threads : FinishDefine(t)
    \/ \E t \in Threads : MatchProvider(t)
    \/ \E t \in Threads : InitMember(t)
    \/ \E t \in Threads : Assemble(t)
    \/ \E t \in Threads : Convert(t)
    \/ \E t \in Threads : GetInitError(t)
    \/ \E t \in Threads : IsEnabled(t)
    \/ \E t \in Threads : Fire(t)
    \/ \E p \in Providers, i \in ProbeIdx : Toggle(p, i)

Spec == Init /\ [][Next]_vars

\* a program built with the probers-macros crate, whose probe! calls name_impl
NextMacros ==
    \/ \E t \in Threads, p \in Providers : CallGetInitError(t, p)
    \/ \E t \in Threads, p \in Providers, i \in ProbeIdx : CallProbeImpl(t, p, i)
    \/ \E t \in Threads : GetImplOpt(t)
    \/ \E t \in Threads : GetStruct(t)
    \/ \E t \in Threads : GetInstance(t)
    \/ \E t \in Threads : AddProbe(t)
    \/ \E t \in Threads : FinishDefine(t)
    \/ \E t \in Threads : MatchProvider(t)
    \/ \E t \in Threads : InitMember(t)
    \/ \E t \in Threads : Assemble(t)
    \/ \E t \in Threads : Convert(t)
    \/ \E t \in Threads : GetInitError(t)
    \/ \E t \in Threads : IsEnabled(t)
    \/ \E t \in Threads : Fire(t)
    \/ \E p \in Providers, i \in ProbeIdx : Toggle(p, i)

SpecMacros == Init /\ [][NextMacros]_vars

\* a program whose probe! calls pass a counting closure as the probe's argument
NextThunk ==
    \/ \E t \in Threads, p \in Providers : CallProbeThunk(t, p)
    \/ \E t \in Threads : GetImplOpt(t)
    \/ \E t \in Threads : GetStruct(t)
    \/ \E t \in Threads : GetInstance(t)
    \/ \E t \in Threads : AddProbe(t)
    \/ \E t \in Threads : FinishDefine(t)
    \/ \E t \in Threads : MatchProvider(t)
    \/ \E t \in Threads : InitMember(t)
    \/ \E t \in Threads : Assemble(t)
    \/ \E t \in Threads : Convert(t)
    \/ \E t \in Threads : IsEnabled(t)
    \/ \E t \in Threads : FireThunk(t)
    \/ \E p \in Providers, i \in ProbeIdx : Toggle(p, i)

SpecThunk == Init /\ [][NextThunk]_vars

\* the macro code handed one trait declaration
InitTraits ==
    /\ InitCommon
    /\ declared = {"A"}
    /\ trait \in Traits
    /\ file = <<>>
    /\ expr = NoExpr

NextTraits ==
    \/ CallFindProbes
    \/ CallGetProbes
    \/ \E g \in BOOLEAN : CallProberImpl(g)
    \/ \E g \in BOOLEAN : CallProberImplMacros(g)

SpecTraits == InitTraits /\ [][NextTraits]_vars

\* find_providers handed one source file
InitFile ==
    /\ InitCommon
    /\ declared = {"A"}
    /\ trait = NoTrait
    /\ file \in Files
    /\ expr = NoExpr

NextFile == CallFindProviders

SpecFile == InitFile /\ [][NextFile]_vars

\* the probe! macro handed one expression, and its expansion run
InitExpand ==
    /\ InitCommon
    /\ declared = {"A"}
    /\ trait = NoTrait
    /\ file = <<>>
    /\ expr \in Exprs

NextExpand ==
    \/ ExpandProbe
    \/ ExpandProbeMacros
    \/ \E v \in {Some(1, DeclaredProbes), None}, flag \in BOOLEAN : RunExpansion(v, flag)

SpecExpand == InitExpand /\ [][NextExpand]_vars

\* the steps thread t takes inside a call of get(), up to its return
GetStep(t) ==
    \/ GetImplOpt(t)
    \/ GetStruct(t)
    \/ GetInstance(t)
    \/ AddProbe(t)
    \/ FinishDefine(t)
    \/ MatchProvider(t)
    \/ InitMember(t)
    \/ Assemble(t)
    \/ Convert(t)

\* a program whose threads call get(), run by a scheduler that lets every thread
\* that can take a step inside get() take it eventually, and in which every call
\* the closures make into the backend returns
NextGet ==
    \/ \E t \in Threads, p \in Providers : CallGet(t, p)
    \/ \E t \in Threads : GetImplOpt(t)
    \/ \E t \in Threads : GetStruct(t)
    \/ \E t \in Threads : GetInstance(t)
    \/ \E t \in Threads : AddProbe(t)
    \/ \E t \in Threads : FinishDefine(t)
    \/ \E t \in Threads : MatchProvider(t)
    \/ \E t \in Threads : InitMember(t)
    \/ \E t \in Threads : Assemble(t)
    \/ \E t \in Threads : Convert(t)

SpecFair == Init /\ [][NextGet]_vars /\ \A t \in Threads : WF_vars(GetStep(t))

\* a program with two provider traits whose threads call get() and get_init_error()
NextTwo ==
    \/ \E t \in Threads, p \in Providers : CallGet(t, p)
    \/ \E t \in Threads, p \in Providers : CallGetInitError(t, p)
    \/ \E t \in Threads : GetImplOpt(t)
    \/ \E t \in Threads : GetStruct(t)
    \/ \E t \in Threads : GetInstance(t)
    \/ \E t \in Threads : AddProbe(t)
    \/ \E t \in Threads : FinishDefine(t)
    \/ \E t \in Threads : MatchProvider(t)
    \/ \E t \in Threads : InitMember(t)
    \/ \E t \in Threads : Assemble(t)
    \/ \E t \in Threads : Convert(t)
    \/ \E t \in Threads : GetInitError(t)

SpecTwo == InitTwo /\ [][NextTwo]_vars

\* threads that call get(), __try_init_provider() and get_init_error() on one
\* provider, each thread's latest get_init_error() result being noted
NextQuery ==
    \/ \E t \in Threads, p \in Providers : CallGet(t, p)
    \/ \E t \in Threads, p \in Providers : CallTryInit(t, p)
    \/ \E t \in Threads, p \in Providers : CallGetInitError(t, p)
    \/ \E t \in Threads : GetImplOpt(t)
    \/ \E t \in Threads : GetStruct(t)
    \/ \E t \in Threads : GetInstance(t)
    \/ \E t \in Threads : AddProbe(t)
    \/ \E t \in Threads : FinishDefine(t)
    \/ \E t \in Threads : MatchProvider(t)
    \/ \E t \in Threads : InitMember(t)
    \/ \E t \in Threads : Assemble(t)
    \/ \E t \in Threads : Convert(t)
    \/ \E t \in Threads : GetInitErrorNoting(t)

SpecQuery == Init /\ [][NextQuery]_vars

\* a program of probe! calls observed together with the flag's value at each call
NextAttempts ==
    \/ \E t \in Threads, p \in Providers, i \in ProbeIdx : CallProbeNoting(t, p, i)
    \/ \E t \in Threads : GetImplOpt(t)
    \/ \E t \in Threads : GetStruct(t)
    \/ \E t \in Threads : GetInstance(t)
    \/ \E t \in Threads : AddProbe(t)
    \/ \E t \in Threads : FinishDefine(t)
    \/ \E t \in Threads : MatchProvider(t)
    \/ \E t \in Threads : InitMember(t)
    \/ \E t \in Threads : Assemble(t)
    \/ \E t \in Threads : Convert(t)
    \/ \E t \in Threads : IsEnabled(t)
    \/ \E t \in Threads : Fire(t)
    \/ \E p \in Providers, i \in ProbeIdx : Toggle(p, i)

SpecAttempts == Init /\ [][NextAttempts]_vars

\* a program that constructs one deferred-argument wrapper and calls its methods
NextWrapper ==
    \/ \E f \in Thunks : WrapperNew(f)
    \/ ToCType
    \/ DefaultCValue
    \/ DebugFmt

SpecWrapper == Init /\ [][NextWrapper]_vars

\* a program that also submits the wire values to_c_type returned
NextSubmit ==
    \/ \E f \in Thunks : WrapperNew(f)
    \/ ToCType
    \/ DefaultCValue
    \/ DebugFmt
    \/ Submit

SpecSubmit == Init /\ [][NextSubmit]_vars

\* ---- steps named by the properties ----------------------------------------
\* thread t's call of get() returns in this step
GetReturns(t) == imp[t] = Nil /\ imp'[t] # Nil

\* thread t's read in get_init_error() happens in this step
InitErrorReturns(t) == pc[t] = "init_error" /\ pc'[t] = "done"

\* some thread is inside the closures that build provider p
Constructing(p) ==
    \E t \in Threads :
        /\ prov[t] = p
        /\ pc[t] \in {"struct", "instance", "define", "match", "members", "convert"}

\* C1: define_provider is invoked at most once per provider, over all threads and
\* interleavings of get() and __try_init_provider(), and exactly once as soon as a
\* call of get() has returned.
C1_DefineProviderOnce ==
    \A p \in Providers :
        /\ defineCalls[p] <= 1
        /\ getResults[p] # {} => defineCalls[p] = 1

C1_Witness ==
    \E t1, t2 \in Threads :
        /\ t1 # t2
        /\ pc[t1] = "done" /\ op[t1] = "get" /\ imp[t1] # Nil
        /\ pc[t2] = "done" /\ op[t2] = "try_init" /\ imp[t2] # Nil
        /\ defineCalls["A"] = 1

\* C2: any two completed calls of get() on one provider return the same value: both
\* None, or both Some of the same struct instance.
C2_SameResult ==
    /\ \A p \in Providers : Cardinality(getResults[p]) <= 1
    /\ \A t1, t2 \in Threads :
          (prov[t1] = prov[t2] /\ imp[t1] # Nil /\ imp[t2] # Nil) => imp[t1] = imp[t2]

C2_Witness ==
    \E t1, t2 \in Threads :
        /\ t1 # t2
        /\ op[t1] = "get" /\ op[t2] = "get"
        /\ imp[t1].tag = "Some" /\ imp[t2] = imp[t1]
        /\ role[t1] = "builder" /\ role[t2] = "waiter"

\* C3: no call of get() returns while the provider is being constructed: when it has
\* returned, no thread is inside the closures, all three cells are filled, and a
\* returned Some refers to a struct with every probe member, built on a backend
\* provider on which every probe was registered.
C3_NoPartialProvider ==
    \A t \in Threads :
        imp[t] # Nil =>
            /\ imp[t].tag \in {"Some", "None"}
            /\ ~Constructing(prov[t])
            /\ instCell[prov[t]].st = "full"
            /\ structCell[prov[t]].st = "full"
            /\ implOpt[prov[t]].st = "full"
            /\ imp[t].tag = "Some" =>
                  /\ imp[t].probes = DeclaredProbes
                  /\ instCell[prov[t]].v.tag = "Ok"
                  /\ instCell[prov[t]].v.probes = DeclaredProbes

C3_Witness ==
    \E t \in Threads :
        /\ role[t] = "waiter"
        /\ op[t] = "get"
        /\ pc[t] = "done"
        /\ imp[t].tag = "Some"

\* C4: Ready and Failed are terminal: once the struct cell holds its result, no step
\* of any operation changes it, the backend-provider cell or a filled IMPL_OPT.
C4_TerminalStates ==
    [][\A p \in Providers :
          (Ready(p) \/ Failed(p)) =>
              /\ structCell'[p] = structCell[p]
              /\ instCell'[p] = instCell[p]
              /\ implOpt[p].st = "full" => implOpt'[p] = implOpt[p]]_vars

C4_Witness ==
    \E t1, t2 \in Threads :
        /\ t1 # t2
        /\ Ready("A")
        /\ role[t1] = "none" /\ op[t1] = "probe" /\ pc[t1] = "done" /\ events[t1] = 1
        /\ role[t2] = "none" /\ op[t2] = "try_init" /\ pc[t2] = "done"

\* C5: once construction has failed, every call of get() returns None, every
\* get_init_error() returns the one cached error, and define_provider is not invoked
\* again: its count stays 1.
C5_FailurePermanent ==
    /\ [](\A p \in Providers : Failed(p) => defineCalls[p] = 1)
    /\ [][\A t \in Threads :
            Failed(prov[t]) =>
                /\ GetReturns(t) => imp'[t] = None
                /\ InitErrorReturns(t) => ret'[t] = SomeErr(structCell[prov[t]].v.err)
                /\ Failed(prov[t])'
                /\ structCell'[prov[t]].v.err = structCell[prov[t]].v.err
                /\ defineCalls'[prov[t]] = defineCalls[prov[t]]]_vars

C5_Witness ==
    \E t1, t2 \in Threads :
        /\ t1 # t2
        /\ Failed("A")
        /\ role[t1] = "none" /\ op[t1] = "get" /\ pc[t1] = "done" /\ imp[t1] = None
        /\ op[t2] = "get_init_error" /\ pc[t2] = "done" /\ ret[t2].tag = "Some"
        /\ defineCalls["A"] = 1

\* C6: get_init_error() never triggers initialization: in any state its steps leave
\* the three cells and the count of define_provider invocations unchanged, and its
\* read is never blocked.
C6_InitErrorReadOnly ==
    /\ [](\A t \in Threads :
            (op[t] = "get_init_error" /\ pc[t] # "done") => ENABLED GetInitError(t))
    /\ [][\A t \in Threads :
            (op'[t] = "get_init_error" /\ pc'[t] # pc[t]) =>
                UNCHANGED <<instCell, structCell, implOpt, defineCalls, structsBuilt>>]_vars

C6_Witness ==
    \E t1, t2 \in Threads :
        /\ op[t1] = "get_init_error" /\ pc[t1] = "done" /\ ret[t1] = None
        /\ role[t2] = "builder" /\ pc[t2] = "define"
        /\ structCell["A"].st = "running"

\* C7: get_init_error() returns Some(error) exactly when initialization has been
\* attempted and its failure is the stored result; it returns None for a provider
\* never initialized and for a Ready one.
C7_InitErrorIffFailed ==
    [][\A t \in Threads :
          InitErrorReturns(t) =>
              /\ ret'[t].tag = "Some" <=> Failed(prov[t])
              /\ ret'[t].tag = "None" <=> ~Failed(prov[t])
              /\ Failed(prov[t]) =>
                    /\ ret'[t].err = structCell[prov[t]].v.err
                    /\ defineCalls[prov[t]] = 1
                    /\ \/ /\ instCell[prov[t]].v.tag = "Err"
                          /\ ret'[t].err = BailMessage(instCell[prov[t]].v.err)
                       \/ /\ instCell[prov[t]].v.tag = "Ok"
                          /\ ret'[t].err = <<GetProbeError>>
              /\ None \in getResults[prov[t]] => ret'[t].tag = "Some"
              /\ (Untouched(prov[t]) \/ Ready(prov[t])) => ret'[t] = None]_vars

C7_Witness ==
    \E t1, t2 \in Threads :
        /\ op[t1] = "get_init_error" /\ pc[t1] = "done" /\ ret[t1] = None
        /\ op[t2] = "get_init_error" /\ pc[t2] = "done" /\ ret[t2].tag = "Some"
        /\ Failed("A")

\* C8: get() returns Some exactly when the provider reached Ready (define_provider
\* returned Ok and the struct was assembled) and None exactly when construction ended
\* in failure.
C8_SomeIffReady ==
    \A t \in Threads :
        imp[t] # Nil =>
            /\ imp[t].tag = "Some" <=> Ready(prov[t])
            /\ imp[t] = None <=> Failed(prov[t])
            /\ imp[t].tag = "Some" =>
                  /\ instCell[prov[t]].v.tag = "Ok"
                  /\ imp[t].id = structCell[prov[t]].v.id
                  /\ imp[t].probes = structCell[prov[t]].v.probes
                  /\ structsBuilt[prov[t]] = 1
            /\ imp[t] = None => structsBuilt[prov[t]] = 0

C8_Witness ==
    \E t \in Threads :
        /\ op[t] = "get" /\ pc[t] = "done"
        /\ imp[t].tag = "Some"
        /\ Ready("A")
        /\ instCell["A"].v.tag = "Ok"

\* C9: in the probers-codegen expansion of probe!, an argument expression is
\* evaluated only if the accessor returned Some and is_enabled() returned true in
\* the same attempt; when either check fails no argument is evaluated.
C9_ArgsOnlyWhenEnabled ==
    \A t \in Threads :
        (op[t] = "probe" /\ evals[t] # <<>>) =>
            /\ imp[t].tag = "Some"
            /\ Ready(prov[t])
            /\ sawEnabled[t]

C9_Witness ==
    \E t1, t2 \in Threads :
        /\ op[t1] = "probe" /\ pc[t1] = "done" /\ evals[t1] = AllArgs /\ sawEnabled[t1]
        /\ op[t2] = "probe" /\ pc[t2] = "done" /\ evals[t2] = <<>>
        /\ imp[t2].tag = "Some" /\ ~sawEnabled[t2]

\* C10: in the probers-macros expansion of probe! (the call P::name_impl(args)), no
\* argument expression is evaluated when the provider is not Ready or the probe is
\* disabled.
C10_MacrosArgsOnlyWhenEnabled ==
    \A t \in Threads :
        (op[t] = "probe_impl" /\ evals[t] # <<>>) =>
            /\ imp[t].tag = "Some"
            /\ Ready(prov[t])
            /\ sawEnabled[t]

\* thread t's is_enabled() read happens in this step
EnabledRead(t) == pc[t] = "is_enabled" /\ pc'[t] # "is_enabled"

\* thread t's call of fire happens in this step
FireStep(t) == pc[t] = "fire" /\ pc'[t] = "done"

\* no probe of any provider is enabled
AllDisabled == \A p \in Providers, i \in ProbeIdx : ~enabled[p][i]

\* C11: firing a probe with a closure argument that counts its invocations: an
\* attempt whose enablement read is false ends without invoking the closure, so the
\* count stays 0 as long as the probe is disabled, whatever the number of attempts;
\* an attempt that fires invokes the closure exactly once, and nothing else does.
C11_ThunkCountedOncePerFire ==
    /\ [][/\ \A t \in Threads :
               /\ (EnabledRead(t) /\ ~enabled[prov[t]][probe[t]]) =>
                      (pc'[t] = "done" /\ thunkLog' = thunkLog)
               /\ FireStep(t) =>
                      (sawEnabled[t] /\ Len(thunkLog') = Len(thunkLog) + 1)
          /\ thunkLog' # thunkLog => \E t \in Threads : FireStep(t)]_vars
    /\ ([]AllDisabled => [](Len(thunkLog) = 0))

C11_Witness ==
    \E t1, t2 \in Threads :
        /\ op[t1] = "probe" /\ pc[t1] = "done" /\ sawEnabled[t1] /\ events[t1] = 1
        /\ op[t2] = "probe" /\ pc[t2] = "done" /\ imp[t2].tag = "Some"
        /\ ~sawEnabled[t2] /\ events[t2] = 0
        /\ Len(thunkLog) = 1

\* the constructor of the wrapper runs in this step
NewStep == wrapper = NoWrapper /\ wrapper' # NoWrapper

\* C12: constructing the wrapper of a closure never invokes the closure: the step
\* leaves the log of invocations as it was and stores the reference to the closure
\* as the wrapper's only content, so right after construction nothing was invoked.
C12_NewDoesNotInvoke ==
    /\ [][NewStep =>
             /\ thunkLog' = thunkLog
             /\ \E f \in Thunks : wrapper' = [thunk |-> f]
             /\ lastOp' = "new"]_vars
    /\ [](lastOp = "new" => thunkLog = <<>>)
    /\ [](\A i \in 1..Len(thunkLog) : thunkLog[i] # "new")

C12_Witness ==
    /\ lastOp = "new"
    /\ wrapper = [thunk |-> "g"]
    /\ thunkLog = <<>>

\* C13: over any sequence of operations on one wrapper (new, to_c_type any number
\* of times, default_c_value, Debug formatting) the closure is invoked at most once
\* in total, and only inside to_c_type.
C13_ThunkAtMostOnce ==
    /\ Len(thunkLog) <= 1
    /\ \A i \in 1..Len(thunkLog) : thunkLog[i] = "to_c_type"

\* C14: in every probe! attempt, fire is called only after is_enabled() returned
\* true earlier in the same attempt on the same probe handle: a thread about to
\* fire, or that has fired, holds a true result read from the flag of the very
\* probe it fires, obtained since the attempt began.
C14_FireAfterEnabledCheck ==
    /\ [](\A t \in Threads :
            (pc[t] = "fire" \/ events[t] = 1) =>
                (sawEnabled[t] /\ op[t] = "probe" /\ imp[t].tag = "Some"))
    /\ [][\A t \in Threads :
            /\ (sawEnabled'[t] /\ ~sawEnabled[t]) =>
                   (EnabledRead(t) /\ enabled[prov[t]][probe[t]] /\ pc'[t] = "fire")
            /\ (pc[t] \in {"is_enabled", "fire"} /\ pc'[t] # "implopt") =>
                   (prov'[t] = prov[t] /\ probe'[t] = probe[t] /\ imp'[t] = imp[t])
            /\ FireStep(t) => (sawEnabled[t] /\ events'[t] = 1)
            /\ (events'[t] = 1 /\ events[t] = 0) => FireStep(t)]_vars

C14_Witness ==
    \E t \in Threads :
        /\ op[t] = "probe" /\ pc[t] = "done" /\ events[t] = 1
        /\ sawEnabled[t]
        /\ ~enabled[prov[t]][probe[t]]

\* C15 as stated: whether an attempt on a Ready provider fires is decided by the
\* value the flag had when the attempt started (set false: no fire; set true: fire).
C15_StartFlagDecides ==
    \A t \in Threads :
        (op[t] = "probe" /\ pc[t] = "done" /\ imp[t].tag = "Some") =>
            (events[t] = 1 <=> startFlag[t])

\* C15: enablement is never cached: every attempt that obtained the probe handle
\* performs its own is_enabled() read, the result is the live value of the flag at
\* the moment of that read whatever earlier attempts observed or the flag was when
\* the attempt began, and the attempt fires exactly when that read returned true.
C15_LiveFlagDecides ==
    /\ [](\A t \in Threads :
            (op[t] = "probe" /\ pc[t] = "done") =>
                (events[t] = 1 <=> (imp[t].tag = "Some" /\ sawEnabled[t])))
    /\ [][\A t \in Threads :
            /\ (GetReturns(t) /\ op[t] = "probe" /\ imp'[t].tag = "Some") =>
                   (pc'[t] = "is_enabled" /\ ~sawEnabled'[t] /\ events'[t] = 0)
            /\ EnabledRead(t) =>
                   /\ sawEnabled'[t] = enabled[prov[t]][probe[t]]
                   /\ pc'[t] = "fire" <=> enabled[prov[t]][probe[t]]
                   /\ pc'[t] = "done" <=> ~enabled[prov[t]][probe[t]]]_vars

C15_Witness ==
    \E t1, t2 \in Threads :
        /\ prov[t1] = prov[t2] /\ probe[t1] = probe[t2]
        /\ op[t1] = "probe" /\ pc[t1] = "done" /\ events[t1] = 1 /\ ~startFlag[t1]
        /\ op[t2] = "probe" /\ pc[t2] = "done" /\ events[t2] = 0 /\ startFlag[t2]
        /\ imp[t2].tag = "Some"

\* C16: a probe! attempt on a provider whose initialization failed is a silent
\* no-op: the accessor gives it None, it never reaches is_enabled() or fire, it
\* evaluates no argument and submits no event, and it ends as an ordinary completed
\* call; once the failure is published the attempt is never made to wait.
C16_FailedProviderNoOp ==
    /\ [](\A t \in Threads :
            (op[t] = "probe" /\ Failed(prov[t])) =>
                /\ pc[t] \notin {"is_enabled", "fire"}
                /\ imp[t] \in {Nil, None}
                /\ ~sawEnabled[t]
                /\ evals[t] = <<>>
                /\ events[t] = 0
                /\ (pc[t] = "implopt" /\ implOpt[prov[t]].st = "full") =>
                       ENABLED GetImplOpt(t))
    /\ [][\A t \in Threads :
            (op[t] = "probe" /\ GetReturns(t) /\ Failed(prov[t])') =>
                (imp'[t] = None /\ pc'[t] = "done")]_vars

C16_Witness ==
    \E t \in Threads :
        /\ op[t] = "probe" /\ pc[t] = "done" /\ role[t] = "none"
        /\ Failed(prov[t])
        /\ imp[t] = None
        /\ enabled[prov[t]][probe[t]]

\* the initialization state of provider p: its three cells and what was built for it
InitState(p) ==
    <<instCell[p], structCell[p], implOpt[p], defineCalls[p], structsBuilt[p],
      getResults[p]>>

\* C17: two distinctly-named providers have independent initialization state: a call
\* made on one provider works on that provider's statics, every step of an operation
\* on one provider leaves the other's three cells (and construction counts)
\* unchanged, and whatever state one provider is in, Failed included, the
\* construction of the other can still succeed.
C17_ProvidersIndependent ==
    /\ [][\A t \in Threads, p \in Providers :
            (CallGet(t, p) \/ CallGetInitError(t, p)) =>
                (prov'[t] = p /\ \A q \in Providers : InitState(q)' = InitState(q))]_vars
    /\ [][\A t \in Threads, q \in Providers :
            (pc'[t] # pc[t] /\ prov'[t] # q) => InitState(q)' = InitState(q)]_vars
    /\ [](\A t \in Threads :
            /\ (pc[t] = "define" /\ Len(loc[t]) = NumProbes) =>
                   ENABLED (FinishDefine(t) /\ instCell'[prov[t]].v.tag = "Ok")
            /\ (pc[t] = "members" /\ MembersComplete(loc[t])) => ENABLED Assemble(t)
            /\ pc[t] = "convert" => ENABLED Convert(t))

C17_Witness ==
    \E t1, t2 \in Threads :
        /\ Failed("A") /\ Ready("B")
        /\ prov[t1] = "A" /\ op[t1] = "get" /\ pc[t1] = "done" /\ imp[t1] = None
        /\ prov[t2] = "B" /\ op[t2] = "get" /\ pc[t2] = "done" /\ imp[t2].tag = "Some"
        /\ defineCalls["A"] = 1 /\ defineCalls["B"] = 1

\* thread t has returned from a call of __try_init_provider()
TryInitDone(t) == op[t] = "try_init" /\ pc[t] = "done"

\* C18: when __try_init_provider() returns, the provider is Ready or Failed with all
\* three cells filled; it returns Some(the stored error) exactly when the provider
\* is Failed and None exactly when it is Ready; repeated calls return the same
\* outcome, and once a call of get() has returned no step of a later call changes
\* a cell or constructs anything.
C18_TryInitIdempotent ==
    /\ [](\A t \in Threads :
            TryInitDone(t) =>
                /\ Ready(prov[t]) \/ Failed(prov[t])
                /\ instCell[prov[t]].st = "full" /\ implOpt[prov[t]].st = "full"
                /\ ret[t].tag = "Some" <=> Failed(prov[t])
                /\ ret[t] = None <=> Ready(prov[t])
                /\ Failed(prov[t]) => ret[t] = SomeErr(structCell[prov[t]].v.err)
                /\ defineCalls[prov[t]] = 1)
    /\ [](\A t1, t2 \in Threads :
            (TryInitDone(t1) /\ TryInitDone(t2) /\ prov[t1] = prov[t2]) =>
                ret[t1] = ret[t2])
    /\ [][\A t \in Threads :
            (op'[t] = "try_init" /\ pc'[t] # pc[t] /\ getResults[prov'[t]] # {}) =>
                /\ UNCHANGED <<instCell, structCell, implOpt, defineCalls, structsBuilt>>
                /\ pc'[t] \in {"implopt", "init_error", "done"}]_vars

C18_Witness ==
    \E t1, t2 \in Threads :
        /\ t1 # t2
        /\ TryInitDone(t1) /\ role[t1] = "builder"
        /\ TryInitDone(t2) /\ role[t2] = "none"
        /\ Failed("A")
        /\ ret[t1].tag = "Some" /\ ret[t2] = ret[t1]

\* the text e occurs in the message m
Contains(m, e) ==
    \E i \in 0..(Len(m) - Len(e)) : SubSeq(m, i + 1, i + Len(e)) = e

\* define_provider returned an error for provider p
BackendFailed(p) == instCell[p].st = "full" /\ instCell[p].v.tag = "Err"

\* C19: when backend construction fails the cause is preserved and retrievable: the
\* error define_provider returned stays in the provider-instance cell, the struct
\* cell's error is the bail! message built from it, and every get_init_error() read
\* made once the provider is Failed returns that error, whose message contains the
\* backend error's message.
C19_CausePreserved ==
    /\ [](\A p \in Providers :
            (BackendFailed(p) /\ Failed(p)) =>
                /\ instCell[p].v.err # <<>>
                /\ structCell[p].v.err = BailMessage(instCell[p].v.err)
                /\ Contains(structCell[p].v.err, instCell[p].v.err))
    /\ [][\A p \in Providers : BackendFailed(p) => instCell'[p] = instCell[p]]_vars
    /\ [][\A t \in Threads :
            (InitErrorReturns(t) /\ BackendFailed(prov[t])) =>
                /\ Failed(prov[t]) =>
                       /\ ret'[t].tag = "Some"
                       /\ ret'[t].err = structCell[prov[t]].v.err
                       /\ Contains(ret'[t].err, instCell[prov[t]].v.err)
                /\ ret'[t].tag = "Some" => Contains(ret'[t].err, instCell[prov[t]].v.err)]_vars

C19_Witness ==
    \E t1, t2 \in Threads :
        /\ t1 # t2
        /\ instCell["A"] = FullCell(Err(<<"name_in_use">>))
        /\ op[t1] = "get_init_error" /\ pc[t1] = "done"
        /\ ret[t1] = SomeErr(<<"Provider initialization failed: ", "name_in_use">>)
        /\ TryInitDone(t2) /\ role[t2] = "none" /\ ret[t2] = ret[t1]

\* thread t is waiting in a get_or_init for another thread's closure to end
Blocked(t) ==
    \/ pc[t] = "implopt" /\ OnceBlocked(implOpt[prov[t]])
    \/ pc[t] = "struct" /\ OnceBlocked(structCell[prov[t]])
    \/ pc[t] = "instance" /\ OnceBlocked(instCell[prov[t]])

\* the first resolution of provider p has ended: IMPL_OPT holds its value
Resolved(p) == implOpt[p].st = "full"

\* C20 as stated: once the provider's state is Ready or Failed, no call of get(),
\* get_init_error(), is_enabled() or fire waits for another thread.
C20_NoWaitOnceTerminal ==
    \A t \in Threads : (Ready(prov[t]) \/ Failed(prov[t])) => ~Blocked(t)

\* C20: the only blocking point is the first resolution: a thread waits only in
\* get(), only while another thread is still inside the closures of the first
\* resolution, and once that resolution has ended (IMPL_OPT is filled) the pending
\* step of every get(), get_init_error(), is_enabled() and fire can be taken;
\* get_init_error(), is_enabled() and fire never wait in any state.
C20_OnlyFirstResolutionBlocks ==
    \A t \in Threads :
        /\ Blocked(t) =>
              /\ ~Resolved(prov[t])
              /\ \E u \in Threads :
                    /\ u # t /\ prov[u] = prov[t] /\ role[u] = "builder"
                    /\ pc[u] \in {"struct", "instance", "define", "match", "members",
                                  "convert"}
        /\ (Resolved(prov[t]) /\ pc[t] = "implopt") => ENABLED GetImplOpt(t)
        /\ Resolved(prov[t]) => pc[t] \notin {"struct", "instance"}
        /\ pc[t] = "init_error" => ENABLED GetInitError(t)
        /\ pc[t] = "is_enabled" => (Resolved(prov[t]) /\ ENABLED IsEnabled(t))
        /\ pc[t] = "fire" => (Resolved(prov[t]) /\ ENABLED Fire(t))

C20_Witness ==
    \E t1, t2 \in Threads :
        /\ Ready("A") /\ Resolved("A")
        /\ op[t1] = "get" /\ pc[t1] = "implopt" /\ role[t1] = "none"
        /\ op[t2] = "probe" /\ pc[t2] = "fire"

\* thread t is inside a call of get()
InGet(t) == pc[t] \in {"implopt", "struct", "instance", "define", "match", "members",
                       "convert"}

\* C21: initialization always resolves: in no reachable state are all threads that
\* are inside get() waiting, and under fair scheduling, with every backend call
\* returning, each thread inside get() eventually returns and a provider whose
\* initialization has begun eventually is Ready or Failed with all three cells filled.
C21_InitializationResolves ==
    /\ []((\E t \in Threads : InGet(t)) => \E t \in Threads : ENABLED GetStep(t))
    /\ \A t \in Threads : InGet(t) ~> (pc[t] = "done" /\ imp[t] # Nil)
    /\ \A p \in Providers :
          ~Untouched(p) ~> ((Ready(p) \/ Failed(p)) /\ Resolved(p))

C21_Witness ==
    \E t1, t2 \in Threads :
        /\ role[t1] = "builder" /\ pc[t1] = "done" /\ imp[t1] # Nil
        /\ role[t2] = "waiter" /\ pc[t2] = "done" /\ imp[t2] = imp[t1]
        /\ Resolved("A")

\* the events an attempt would submit if the flag's value at this moment decided
EventsByFlagNow(t) == IF enabled[prov[t]][probe[t]] THEN 1 ELSE 0

\* the distance between two event counts
Distance(a, b) == IF a >= b THEN a - b ELSE b - a

\* C22: the tracing tool toggling the flag between the is_enabled() check and the
\* fire of an attempt produces no error: a thread that is about to fire can fire
\* whatever the flag has become, an attempt submits one event if its check returned
\* true and none otherwise, so never more than one, and that number is within one
\* of what the flag's value at fire time, or at any later time, would give.
C22_ToggleRaceHarmless ==
    /\ [](\A t \in Threads :
            /\ events[t] \in {0, 1}
            /\ pc[t] = "fire" => (ENABLED Fire(t) /\ events[t] = 0)
            /\ (op[t] = "probe" /\ pc[t] = "done") =>
                   /\ events[t] = (IF sawEnabled[t] THEN 1 ELSE 0)
                   /\ Distance(events[t], EventsByFlagNow(t)) <= 1)
    /\ [][\A t \in Threads :
            FireStep(t) =>
                /\ events'[t] = 1
                /\ Distance(events'[t], EventsByFlagNow(t)) <= 1]_vars

C22_Witness ==
    \E t1, t2 \in Threads :
        /\ prov[t1] = prov[t2] /\ probe[t1] = probe[t2]
        /\ pc[t1] = "fire" /\ sawEnabled[t1] /\ ~enabled[prov[t1]][probe[t1]]
        /\ op[t2] = "probe" /\ pc[t2] = "done" /\ events[t2] = 1

\* the functions that validate a provider trait's declaration
ValidatingCalls == {"find_probes", "prober_impl", "prober_impl (probers-macros)"}

\* C23: a trait that declares a type parameter or a lifetime parameter is rejected:
\* find_probes and both prober_impl functions return the error about parameters,
\* with no probe list and no generated code, whatever the trait's items are.
C23_GenericTraitRejected ==
    (call \in ValidatingCalls /\ (trait.typeParams \/ trait.lifetimes)) =>
        /\ found.tag = "Err"
        /\ found.msg = GenericsMessage
        /\ found.probes = <<>>
        /\ found.code = <<>>

C23_Witness ==
    /\ call = "prober_impl"
    /\ trait.lifetimes /\ ~trait.typeParams
    /\ trait.items = <<Method("probe0"), Method("probe1")>>
    /\ found.tag = "Err"

\* the positions of the trait's items that are not methods
NonMethodPositions(tr) == {i \in 1..Len(tr.items) : tr.items[i].kind # "method"}

\* C24: a trait with an item that is not a method (a const, an associated type, a
\* macro invocation) is rejected wherever the item stands among the trait's items:
\* find_probes, get_probes and both prober_impl functions return an error, with no
\* probe list (in particular not the probes before the item) and no generated code;
\* when nothing else is wrong before the item, the error is the one about non-method
\* contents.
C24_NonMethodItemRejected ==
    (call \in ValidatingCalls \cup {"get_probes"} /\ NonMethodPositions(trait) # {}) =>
        /\ found.tag = "Err"
        /\ found.probes = <<>>
        /\ found.code = <<>>
        /\ (/\ call = "get_probes" \/ ~(trait.typeParams \/ trait.lifetimes)
            /\ \A i \in 1..Len(trait.items) :
                   (\A j \in NonMethodPositions(trait) : i < j) => trait.items[i].suitable)
              => found.msg = NonMethodMessage

C24_Witness ==
    /\ call = "find_probes"
    /\ ~trait.typeParams /\ ~trait.lifetimes
    /\ trait.items = <<Method("probe0"), Method("probe1"), OtherItem("type")>>
    /\ found = ProberError(NonMethodMessage)

\* a valid provider trait: no parameters, and only methods that can be probes
ValidTrait(tr) ==
    /\ ~tr.typeParams
    /\ ~tr.lifetimes
    /\ \A i \in 1..Len(tr.items) : tr.items[i].kind = "method" /\ tr.items[i].suitable

\* C26: for a valid provider trait find_probes returns Ok with one probe
\* specification per method of the trait, in the order the methods are declared, and
\* nothing else; for a trait without methods the list is empty.
C26_OneProbePerMethodInOrder ==
    (call = "find_probes" /\ ValidTrait(trait)) =>
        /\ found.tag = "Ok"
        /\ Len(found.probes) = Len(trait.items)
        /\ \A i \in 1..Len(trait.items) : found.probes[i] = trait.items[i].name
        /\ found.msg = ""
        /\ found.code = <<>>
        /\ trait.items = <<>> => found.probes = <<>>

C26_Witness ==
    /\ call = "find_probes"
    /\ ValidTrait(trait)
    /\ trait.items = <<Method("probe1"), Method("probe0"), Method("probe1")>>
    /\ found = OkProbes(<<"probe1", "probe0", "probe1">>)

\* the trait declaration e carries an attribute whose last path segment is `prober`
Marked(e) ==
    \E i \in 1..Len(e.attrs) :
        Len(e.attrs[i]) > 0 /\ e.attrs[i][Len(e.attrs[i])] = "prober"

\* the provider name that belongs to a trait's identifier
NameOf(ident) == IF ident = <<"My", "Probes">> THEN "my_probes" ELSE "tracer"

\* the declarations of the file that are marked and valid, in the file's order
ValidMarked(f) == SelectSeq(f, LAMBDA e : Marked(e) /\ ValidTrait(e.decl))

\* C25: find_providers returns, without an error, exactly one ProviderSpecification
\* for each trait of the file that carries an attribute whose last path segment is
\* `prober` and that is a valid provider, with the trait's name in snake case and one
\* probe per method; a trait without such an attribute and an attributed but invalid
\* trait leave no entry.
C25_ExactlyValidMarkedTraits ==
    call = "find_providers" =>
        /\ found.tag = "Ok"
        /\ found.msg = ""
        /\ Len(found.providers) = Len(ValidMarked(file))
        /\ \A i \in 1..Len(ValidMarked(file)) :
               /\ found.providers[i].name = NameOf(ValidMarked(file)[i].decl.ident)
               /\ Len(found.providers[i].probes) = Len(ValidMarked(file)[i].decl.items)
               /\ \A j \in 1..Len(ValidMarked(file)[i].decl.items) :
                      found.providers[i].probes[j] = ValidMarked(file)[i].decl.items[j].name

C25_Witness ==
    /\ call = "find_providers"
    /\ Len(file) = 2
    /\ file[1].attrs = << <<"probers", "prober">> >>
    /\ file[1].decl.items = <<Method("probe0"), OtherItem("const")>>
    /\ file[2].attrs = << <<"derive">>, <<"prober">> >>
    /\ file[2].decl.ident = <<"My", "Probes">>
    /\ ValidTrait(file[2].decl)
    /\ found.providers = <<[name |-> "my_probes", probes |-> <<"probe0", "probe1">>]>>

\* the declared probes registered so far are the first of the declaration, in order
InDeclarationOrder(l) ==
    /\ Len(l) <= NumProbes
    /\ l = SubSeq(DeclaredProbes, 1, Len(l))

\* C27: construction keeps a fixed order. While a thread registers probes,
\* define_provider has been begun for its provider (once) and the probes registered
\* so far are an initial part of the declaration, in declaration order, each once; a
\* backend provider exists only with every declared probe registered; the struct is
\* assembled, and the provider becomes Ready, only in a step taken when the backend
\* provider exists with all registrations made, and it holds every declared probe;
\* after a failure of a registration, of define_provider or of a member no struct is
\* ever assembled, and a backend failure leads to Failed.
C27_ConstructionOrder ==
    /\ [](\A t \in Threads :
            pc[t] = "define" =>
                /\ defineCalls[prov[t]] = 1
                /\ instCell[prov[t]].st = "running"
                /\ structCell[prov[t]].st = "running"
                /\ InDeclarationOrder(loc[t]))
    /\ [](\A p \in Providers :
            /\ (instCell[p].st = "full" /\ instCell[p].v.tag = "Ok") =>
                   instCell[p].v.probes = DeclaredProbes
            /\ (BackendFailed(p) \/ Failed(p)) => (~Ready(p) /\ structsBuilt[p] = 0)
            /\ (Failed(p) /\ Resolved(p)) => implOpt[p].v = None)
    /\ [][\A p \in Providers :
            (~Ready(p) /\ Ready(p)') =>
                /\ instCell[p].st = "full" /\ instCell[p].v.tag = "Ok"
                /\ instCell[p].v.probes = DeclaredProbes
                /\ instCell'[p] = instCell[p]
                /\ structCell'[p].v.probes = DeclaredProbes
                /\ structsBuilt[p] = 0 /\ structsBuilt'[p] = 1]_vars
    /\ \A p \in Providers : BackendFailed(p) ~> Failed(p)

C27_Witness ==
    /\ Ready("A")
    /\ Resolved("A")
    /\ instCell["A"].v.probes = DeclaredProbes
    /\ structCell["A"].v.probes = DeclaredProbes
    /\ structsBuilt["A"] = 1
    /\ defineCalls["A"] = 1

\* the backend-provider cell of p holds Ok
BackendOk(p) == instCell[p].st = "full" /\ instCell[p].v.tag = "Ok"

\* IMPL_OPT of p holds Some
HoldsSome(p) == implOpt[p].st = "full" /\ implOpt[p].v.tag = "Some"

\* each cell is set only if the cell its closure reads is set
SetInnermostFirst(p) ==
    /\ implOpt[p].st = "full" => structCell[p].st = "full"
    /\ structCell[p].st = "full" => instCell[p].st = "full"

\* C28 as stated: in every reachable state each cell is set only if the cell inside
\* it is set, and IMPL_OPT holds Some iff the struct cell holds Ok iff the backend
\* cell holds Ok.
C28_CellsAgree ==
    \A p \in Providers :
        /\ SetInnermostFirst(p)
        /\ HoldsSome(p) <=> Ready(p)
        /\ Ready(p) <=> BackendOk(p)

\* C28 amended: the cells are filled innermost first (in every state, and a step
\* that sets a cell is taken with the cell inside it already set), and they agree in
\* one direction: IMPL_OPT holds Some only if the struct cell holds Ok, which it
\* does only if the backend cell holds Ok; once IMPL_OPT is set, it holds Some
\* exactly if the struct cell holds Ok, and then the reference is to that struct;
\* a backend failure always ends in a struct cell holding Err.
C28_CellsNested ==
    /\ [](\A p \in Providers :
            /\ SetInnermostFirst(p)
            /\ HoldsSome(p) => Ready(p)
            /\ Ready(p) => BackendOk(p)
            /\ Resolved(p) => (HoldsSome(p) <=> Ready(p))
            /\ HoldsSome(p) => /\ implOpt[p].v.id = structCell[p].v.id
                               /\ implOpt[p].v.probes = structCell[p].v.probes
            /\ (BackendFailed(p) /\ structCell[p].st = "full") => Failed(p))
    /\ [][\A p \in Providers :
            /\ (structCell[p].st # "full" /\ structCell'[p].st = "full") =>
                   (instCell[p].st = "full" /\ implOpt[p].st = "running")
            /\ (implOpt[p].st # "full" /\ implOpt'[p].st = "full") =>
                   structCell[p].st = "full"]_vars

C28_Witness ==
    /\ BackendOk("A")
    /\ Failed("A")
    /\ Resolved("A")
    /\ ~HoldsSome("A")

\* C29: get() and get_init_error() agree once get() has returned: a read of
\* get_init_error() made after some call of get() on the provider returned None
\* returns Some(error), the error held by the struct cell, and a read made after some
\* call of get() returned Some returns None; this includes the read that
\* __try_init_provider() makes after its own call of get().
C29_GetAndInitErrorAgree ==
    [][\A t \in Threads :
          InitErrorReturns(t) =>
              /\ None \in getResults[prov[t]] =>
                     /\ ret'[t].tag = "Some"
                     /\ ret'[t].err # <<>>
                     /\ ret'[t] = SomeErr(structCell[prov[t]].v.err)
              /\ (\E v \in getResults[prov[t]] : v.tag = "Some") => ret'[t] = None]_vars

C29_Witness ==
    \E t1, t2 \in Threads :
        /\ t1 # t2
        /\ op[t1] = "get" /\ pc[t1] = "done" /\ ret[t1] = None
        /\ op[t2] = "try_init" /\ pc[t2] = "done" /\ imp[t2] = None
        /\ ret[t2].tag = "Some" /\ ret[t2].err # <<>>
        /\ lastInitError[t2] = ret[t2]

\* C30: the results of get_init_error() are monotone: once a read has returned
\* Some(e), to this thread or to any other, every later read returns the same
\* Some(e), so a thread's results change at most once, from None to Some(e), and
\* never back or to another error. (A thread can read Some(e) while the first call
\* of get() on the provider, made by another thread, has not yet returned.)
C30_InitErrorMonotone ==
    [][\A t \in Threads :
          InitErrorReturns(t) =>
              \A u \in Threads :
                  (prov[u] = prov[t] /\ lastInitError[u].tag = "Some") =>
                      /\ ret'[t] = lastInitError[u]
                      /\ lastInitError'[t] = lastInitError[u]]_vars

C30_Witness ==
    \E t, u \in Threads :
        /\ t # u
        /\ op[t] = "get_init_error" /\ pc[t] = "init_error"
        /\ lastInitError[t].tag = "Some" /\ lastInitError[t].err # <<>>
        /\ prov[u] = prov[t] /\ InGet(u) /\ role[u] = "builder"
        /\ getResults[prov[t]] = {}

\* a call of the wrapper's method m that can be told from no call at all
WrapperStep(m) == lastOp' = m /\ <<thunkLog, lastOp, wire>>' # <<thunkLog, lastOp, wire>>

\* C31: each single call of to_c_type on the wrapper of closure f invokes f exactly
\* once (the log grows by one entry, made by to_c_type) and returns the wire value of
\* f's result, which is what wrap(f()).to_c_type() returns and a value of T's wire
\* type; the wrapper itself is left as it was.
C31_ToCTypeInvokesOnce ==
    /\ [][WrapperStep("to_c_type") =>
             /\ Len(thunkLog') = Len(thunkLog) + 1
             /\ SubSeq(thunkLog', 1, Len(thunkLog)) = thunkLog
             /\ thunkLog'[Len(thunkLog')] = "to_c_type"
             /\ wire' = <<"ctype", "value", wrapper.thunk>>
             /\ wrapper' = wrapper]_vars
    /\ [](lastOp = "to_c_type" =>
             /\ wire = <<"ctype", "value", wrapper.thunk>>
             /\ thunkLog # <<>>)

C31_Witness ==
    /\ lastOp = "to_c_type"
    /\ wrapper = [thunk |-> "f"]
    /\ thunkLog = <<"to_c_type">>
    /\ wire = <<"ctype", "value", "f">>

\* C32: default_c_value returns exactly the default wire value of the closure's
\* result type T and invokes no closure: the log of invocations is left as it was,
\* whether or not a wrapper exists and whatever was called before.
C32_DefaultInvokesNothing ==
    /\ [][WrapperStep("default_c_value") =>
             /\ thunkLog' = thunkLog
             /\ wire' = <<"ctype", "default">>
             /\ wrapper' = wrapper]_vars
    /\ [](lastOp = "default_c_value" => wire = <<"ctype", "default">>)
    /\ [](\A i \in 1..Len(thunkLog) : thunkLog[i] # "default_c_value")

C32_Witness ==
    /\ lastOp = "default_c_value"
    /\ wrapper = [thunk |-> "g"]
    /\ thunkLog = <<"to_c_type">>
    /\ wire = <<"ctype", "default">>

\* C33: when a wire value returned by to_c_type is submitted to the backend, the
\* wrapper built from the closure's result, which owns what the wire value refers
\* to, is still alive, so the backend receives the wire value of the closure's
\* result.
C33_InnerAliveAtFire ==
    lastOp = "fire" =>
        /\ inner = "alive"
        /\ wire = <<"ctype", "value", wrapper.thunk>>

\* the accessor's identifier for the probes the calls name
AccessorOf(n) == IF n = "probe0" THEN "get_probe0_probe" ELSE "get_probe1_probe"

\* the expression is a call whose callee is a path
CallOfPath(e) == e.kind = "call" /\ e.func.kind = "path"

\* C34: for a call Path(args) the probe! expansion of probers-codegen is one block
\* that calls the accessor get_<name>_probe, on the same path and with no arguments,
\* and whose fire receives one tuple made of all the original argument expressions,
\* in their original order, each once; run on the enabled path the block evaluates
\* every argument exactly once, left to right, and on the other paths none.
C34_ExpansionKeepsArguments ==
    /\ (call = "probe_impl" /\ CallOfPath(expr)) =>
           /\ found.tag = "Ok"
           /\ Len(found.code) = 1
           /\ found.code[1].form = "block"
           /\ found.code[1].args = <<>>
           /\ Len(found.code[1].func) = Len(expr.func.segments)
           /\ \A i \in 1..Len(expr.func.segments) :
                  found.code[1].func[i] =
                      IF i < Len(expr.func.segments)
                        THEN expr.func.segments[i]
                        ELSE AccessorOf(expr.func.segments[i])
           /\ Len(found.code[1].fire) = Len(expr.args)
           /\ \A i \in 1..Len(expr.args) : found.code[1].fire[i] = expr.args[i]
    /\ (call = "run" /\ found.code[1].form = "block") =>
           /\ found.msg \in {"fired", "disabled", "no provider"}
           /\ found.msg = "fired" => found.evaluated = expr.args
           /\ found.msg # "fired" => found.evaluated = <<>>

C34_Witness ==
    /\ call = "run"
    /\ expr.func.segments = <<"m", "P", "probe0">>
    /\ expr.args = <<"y()", "x">>
    /\ found.code[1].form = "block"
    /\ found.code[1].func = <<"m", "P", "get_probe0_probe">>
    /\ found.msg = "fired"
    /\ found.evaluated = <<"y()", "x">>

\* C35: probe_impl, in probers-codegen and in probers-macros, returns an error and no
\* code when its input is not a call expression (the error that names the required
\* form) or when the callee of the call is not a path (the error about the unexpected
\* callee); it returns Ok, with code, exactly for the calls of the form Path(args).
C35_OnlyPathCallsExpand ==
    call \in {"probe_impl", "probe_impl (probers-macros)"} =>
        /\ expr.kind # "call" => found = ProberError(NotACallMessage)
        /\ (expr.kind = "call" /\ expr.func.kind # "path") =>
               found = ProberError(UnexpectedCalleeMessage)
        /\ found.tag \in {"Ok", "Err"}
        /\ found.tag = "Ok" <=> (expr.kind = "call" /\ expr.func.kind = "path")
        /\ found.tag = "Ok" <=> found.code # <<>>

C35_Witness ==
    /\ call = "probe_impl"
    /\ expr.kind = "call"
    /\ expr.func.kind = "closure"
    /\ expr.args = <<"x", "y()">>
    /\ found.tag = "Err"
    /\ found.code = <<>>

====
